---- MODULE Spec2Model ----
(***************************************************************************)
(* Solana IDL Health Check: src/action.ts (GitHub Action entry point) and  *)
(* src/check-idl.ts (main, validateConfig, getProgramDataAddress,          *)
(* getLatestTransaction, printReport).                                     *)
(*                                                                         *)
(* One behaviour is a sequence of process runs.  A run starts either at    *)
(* the action entry point or directly at check-idl (CLI), reads the        *)
(* environment, talks to the chain RPC and to the Helius history API, and  *)
(* ends in process.exit.  The variable idlQueried is the only thing that   *)
(* survives a run: it records, per program address, which IDL addresses    *)
(* had their history requested.                                            *)
(***************************************************************************)
EXTENDS Integers, Sequences, FiniteSets

\* ---------------------------------------------------------------- bounds
MaxRuns == 2       \* process runs in one behaviour
MaxTime == 2       \* Unix timestamps of history records range over 0..MaxTime
MaxTxs  == 2       \* length of the transaction list a history response carries
MaxFill == 1       \* variants of the 32 address bytes in the account data

\* ---------------------------------------------------------------- values
UNSET == "<unset>"                      \* an environment variable that is not set
EnvVars == {"HELIUS_API_KEY", "PROGRAM_ID", "IDL_ACCOUNT", "RPC_URL"}

WellFormedKeys == {"Prog1", "Prog2"}    \* base58 texts that decode to 32 bytes
ProgramIdTexts == WellFormedKeys \cup {"notakey"}
IdlTexts       == {"Idl1", "Idl2"}

LOADER == "BPFLoaderUpgradeab1e11111111111111111111111"
Owners == {LOADER, "OtherOwner"}

Labels == {"ProgramData", "IDL Account"}

\* what the environment of a run may hold for each variable
EnvDomain(v) ==
  CASE v = "HELIUS_API_KEY" -> {UNSET, "key"}
    [] v = "PROGRAM_ID"     -> {UNSET} \cup ProgramIdTexts
    [] v = "IDL_ACCOUNT"    -> {UNSET} \cup IdlTexts
    [] v = "RPC_URL"        -> {UNSET, "url"}

Environments == {e \in [EnvVars -> {UNSET, "key", "url"} \cup ProgramIdTexts \cup IdlTexts] :
                   \A v \in EnvVars : e[v] \in EnvDomain(v)}

NoEnv == [v \in EnvVars |-> UNSET]

\* a .env file in the working directory: absent, or one that sets the three
\* variables check-idl reads
DotenvFiles == {NoEnv,
                [NoEnv EXCEPT !["HELIUS_API_KEY"] = "key",
                              !["PROGRAM_ID"] = "Prog2",
                              !["IDL_ACCOUNT"] = "Idl1"]}

\* the with: block of the workflow step; "" is an input that was not given
ActionInputs == [rpcUrl : {"", "url"}, programId : {""} \cup ProgramIdTexts]
NoInputs == [rpcUrl |-> "", programId |-> ""]

\* ------------------------------------------------------------ account data
Headers == {<<3, 0, 0, 0>>, <<0, 0, 0, 3>>, <<0, 0, 0, 0>>, <<3, 3, 0, 0>>, <<1, 0, 0, 0>>}
DataLens == {3, 35, 36, 37}

MkData(hdr, len, fill) ==
  [i \in 1..len |-> IF i <= 4 THEN hdr[i] ELSE (fill * 100 + i) % 256]

\* what connection.getAccountInfo can answer: a transport error, null (no such
\* account), or the account's owner and data
RpcReplies ==
  {[kind |-> "error", owner |-> "", data |-> <<>>],
   [kind |-> "null",  owner |-> "", data |-> <<>>]}
  \cup {[kind |-> "account", owner |-> o, data |-> MkData(h, n, f)] :
          o \in Owners, h \in Headers, n \in DataLens, f \in 0..MaxFill}

\* ------------------------------------------------------------ history data
\* timestamp is Unix seconds as the history API reports them; every value is
\* one Date can print, so printReport's toISOString does not throw
Timestamps == 0..MaxTime
HeliusTxs  == [signature : {"sig"}, timestamp : Timestamps]
NoTx == [signature |-> "", timestamp |-> -1]     \* JavaScript null

RECURSIVE SeqsUpTo(_, _)
SeqsUpTo(S, n) ==
  IF n = 0 THEN {<<>>}
  ELSE LET shorter == SeqsUpTo(S, n - 1)
       IN  shorter \cup {Append(s, x) : s \in {t \in shorter : Len(t) = n - 1}, x \in S}

\* response.data of the history request: null, or a list of transactions
HistoryReplies ==
  {[data |-> "null", txs |-> <<>>]}
  \cup {[data |-> "list", txs |-> s] : s \in SeqsUpTo(HeliusTxs, MaxTxs)}

VARIABLES
  runs,          \* number of the current run
  entry,         \* "cli" or "action": which file the run was started through
  inputs,        \* the action inputs of the run
  dotenv,        \* the .env file of the run
  env,           \* process.env
  CONFIG,        \* CONFIG of check-idl.ts, read from env when the module loads
  pc,            \* position of the run
  exitCode,      \* -1 while running, then the code given to process.exit
  log,           \* what the run has printed, as a sequence of tags
  accountCalls,  \* number of getAccountInfo calls of the run
  info,          \* what getAccountInfo returned
  resolved,      \* how getProgramDataAddress ended: "none", "throw", "null", "key"
  programDataAddress, \* the key getProgramDataAddress returned
  requests,      \* history requests issued, in order
  lookup,        \* per label: "idle", "pending", "returned", "failed"
  result,        \* per label: what getLatestTransaction returned
  idlQueried     \* per program address: IDL addresses queried in any run

vars == <<runs, entry, inputs, dotenv, env, CONFIG, pc, exitCode, log,
          accountCalls, info, resolved, programDataAddress, requests, lookup, result,
          idlQueried>>

ConfigKeys == {"HELIUS_API_KEY", "PROGRAM_ID", "IDL_ACCOUNT"}
NoConfig == [k \in ConfigKeys |-> UNSET]
NoInfo == [kind |-> "none", owner |-> "", data |-> <<>>]
NoKey  == <<>>

\* before the first run, and between two runs, no process exists
Init ==
  /\ runs = 0
  /\ pc = "idle"
  /\ entry = "none"
  /\ inputs = NoInputs
  /\ dotenv = NoEnv
  /\ env = NoEnv
  /\ CONFIG = NoConfig
  /\ exitCode = -1
  /\ log = <<>>
  /\ accountCalls = 0
  /\ info = NoInfo
  /\ resolved = "none"
  /\ programDataAddress = NoKey
  /\ requests = <<>>
  /\ lookup = [l \in Labels |-> "idle"]
  /\ result = [l \in Labels |-> NoTx]
  /\ idlQueried = [p \in WellFormedKeys |-> {}]

\* ------------------------------------------------------------ pure helpers
Min(a, b) == IF a < b THEN a ELSE b

\* JavaScript falsiness of an environment value: undefined or the empty string
Falsy(x) == x = UNSET \/ x = ""

\* dotenv.config(): a variable of the .env file is set only when process.env
\* does not have it already
dotenvConfig(e, file) ==
  [v \in EnvVars |-> IF e[v] = UNSET THEN file[v] ELSE e[v]]

\* the CONFIG object literal: the three values main uses, read from process.env
loadConfig(e) == [k \in ConfigKeys |-> e[k]]

\* validateConfig checking PROGRAM_ID only
validateConfig_programIdOnly(cfg) ==
  IF Falsy(cfg["PROGRAM_ID"]) THEN <<"PROGRAM_ID">> ELSE <<>>

\* validateConfig: the list of missing variables, in the order it checks them
validateConfig(cfg) ==
  (IF Falsy(cfg["HELIUS_API_KEY"]) THEN <<"HELIUS_API_KEY">> ELSE <<>>)
  \o (IF Falsy(cfg["PROGRAM_ID"]) THEN <<"PROGRAM_ID">> ELSE <<>>)
  \o (IF Falsy(cfg["IDL_ACCOUNT"]) THEN <<"IDL_ACCOUNT">> ELSE <<>>)

\* new PublicKey(text) accepts the texts that decode to 32 bytes and throws on
\* the others
IsPublicKeyText(text) == text \in WellFormedKeys

\* the owner check left out
OwnerIsLoader_unchecked(i) == TRUE

\* info.owner.equals(BPF_LOADER_UPGRADEABLE_PROGRAM_ID)
OwnerIsLoader(i) == i.owner = LOADER

\* buffer.readUInt32LE(0); it throws a RangeError on a buffer of under 4 bytes
CanReadUInt32(buf) == Len(buf) >= 4
readUInt32LE(buf) == buf[1] + 256 * buf[2] + 65536 * buf[3] + 16777216 * buf[4]

\* the address read one byte early, from offsets [3,35)
subarray_offByOne(buf, start, end) ==
  [i \in 1..(Min(end, Len(buf)) - Min(start, Len(buf))) |-> buf[Min(start, Len(buf)) + i - 1]]

\* buffer.subarray(start, end): both ends are clamped to the buffer
subarray(buf, start, end) ==
  LET s == Min(start, Len(buf))
      e == Min(end, Len(buf))
  IN  [i \in 1..(IF e > s THEN e - s ELSE 0) |-> buf[s + i]]

\* new PublicKey(bytes): the bytes as a big-endian number of at most 32 bytes,
\* which reads back as 32 bytes, zero-filled on the left
PublicKeyFromBytes(b) ==
  [i \in 1..32 |-> IF i <= 32 - Len(b) THEN 0 ELSE b[i - (32 - Len(b))]]

\* key.toBase58(): the text form of a key; distinct keys have distinct texts
toBase58(key) == [base58 |-> key]

\* getProgramDataAddress, from the reply of getAccountInfo on
getProgramDataAddress(reply) ==
  IF reply.kind = "error" THEN [kind |-> "throw", key |-> NoKey]
  ELSE IF reply.kind = "null" THEN [kind |-> "throw", key |-> NoKey]
  ELSE IF ~OwnerIsLoader(reply) THEN [kind |-> "null", key |-> NoKey]
  ELSE IF ~CanReadUInt32(reply.data) THEN [kind |-> "throw", key |-> NoKey]
  ELSE IF readUInt32LE(reply.data) # 3 THEN [kind |-> "null", key |-> NoKey]
  ELSE [kind |-> "key", key |-> PublicKeyFromBytes(subarray(reply.data, 4, 36))]

\* getLatestTransaction on a response that arrived: null for no data or an
\* empty list, else the first entry
latestOf(reply) ==
  IF reply.data = "null" \/ Len(reply.txs) = 0 THEN NoTx ELSE reply.txs[1]

\* printReport: the report lines
printReport(progTx, idlTx) ==
  <<"report",
    IF progTx # NoTx THEN "program-time" ELSE "program-no-data",
    IF idlTx # NoTx THEN "idl-time" ELSE "idl-no-data",
    "report-end">>

\* the comparison with >= in place of >
IsOutdated_orEqual(progTx, idlTx) == progTx.timestamp >= idlTx.timestamp

\* the comparison of main
IsOutdated(progTx, idlTx) == progTx.timestamp > idlTx.timestamp

\* process.exit(code)
Exit(code) == pc' = "exited" /\ exitCode' = code

\* ----------------------------------------------------------------- actions
\* action.ts: core.getInput(..., {required: true}) throws on an input that was
\* not given; nothing catches it and the process ends with code 1
ActionInputMissing ==
  /\ pc = "action"
  /\ inputs.rpcUrl = "" \/ inputs.programId = ""
  /\ log' = Append(log, "input-required")
  /\ Exit(1)
  /\ UNCHANGED <<runs, entry, inputs, dotenv, env, CONFIG, accountCalls, info,
                 resolved, programDataAddress, requests, lookup, result, idlQueried>>

\* action.ts: both inputs are copied to RPC_URL and PROGRAM_ID, then check-idl
\* is imported
ActionMapInputs ==
  /\ pc = "action"
  /\ inputs.rpcUrl # "" /\ inputs.programId # ""
  /\ env' = [env EXCEPT !["RPC_URL"] = inputs.rpcUrl,
                        !["PROGRAM_ID"] = inputs.programId]
  /\ pc' = "load"
  /\ UNCHANGED <<runs, entry, inputs, dotenv, CONFIG, exitCode, log, accountCalls,
                 info, resolved, programDataAddress, requests, lookup, result,
                 idlQueried>>

\* check-idl.ts module body: dotenv.config(), then CONFIG, then main()
LoadModule ==
  /\ pc = "load"
  /\ env' = dotenvConfig(env, dotenv)
  /\ CONFIG' = loadConfig(env')
  /\ pc' = "main"
  /\ UNCHANGED <<runs, entry, inputs, dotenv, exitCode, log, accountCalls, info,
                 resolved, programDataAddress, requests, lookup, result, idlQueried>>

\* main, validateConfig finds a variable missing
MainConfigMissing ==
  /\ pc = "main"
  /\ validateConfig(CONFIG) # <<>>
  /\ log' = log \o <<"init", "missing-env">>
  /\ Exit(1)
  /\ UNCHANGED <<runs, entry, inputs, dotenv, env, CONFIG, accountCalls, info,
                 resolved, programDataAddress, requests, lookup, result, idlQueried>>

\* main, new PublicKey(CONFIG.PROGRAM_ID) throws
MainBadProgramId ==
  /\ pc = "main"
  /\ validateConfig(CONFIG) = <<>>
  /\ ~IsPublicKeyText(CONFIG["PROGRAM_ID"])
  /\ log' = Append(log, "init")
  /\ pc' = "rejected"
  /\ UNCHANGED <<runs, entry, inputs, dotenv, env, CONFIG, exitCode, accountCalls,
                 info, resolved, programDataAddress, requests, lookup, result,
                 idlQueried>>

\* main up to its first await: getProgramDataAddress calls getAccountInfo
MainResolve ==
  /\ pc = "main"
  /\ validateConfig(CONFIG) = <<>>
  /\ IsPublicKeyText(CONFIG["PROGRAM_ID"])
  /\ log' = log \o <<"init", "target">>
  /\ accountCalls' = accountCalls + 1
  /\ pc' = "awaitAccount"
  /\ UNCHANGED <<runs, entry, inputs, dotenv, env, CONFIG, exitCode, info,
                 resolved, programDataAddress, requests, lookup, result, idlQueried>>

\* getAccountInfo fails or finds no account, or the data is too short to hold
\* the status: getProgramDataAddress throws
ResolveThrows ==
  /\ pc = "awaitAccount"
  /\ \E reply \in RpcReplies :
       /\ getProgramDataAddress(reply).kind = "throw"
       /\ info' = reply
  /\ resolved' = "throw"
  /\ pc' = "rejected"
  /\ UNCHANGED <<runs, entry, inputs, dotenv, env, CONFIG, exitCode, log,
                 accountCalls, programDataAddress, requests, lookup, result,
                 idlQueried>>

\* getProgramDataAddress returns null: the immutable path of main
ResolveImmutable ==
  /\ pc = "awaitAccount"
  /\ \E reply \in RpcReplies :
       /\ getProgramDataAddress(reply).kind = "null"
       /\ info' = reply
  /\ resolved' = "null"
  /\ log' = Append(log, "not-upgradeable")
  /\ Exit(0)
  /\ UNCHANGED <<runs, entry, inputs, dotenv, env, CONFIG, accountCalls,
                 programDataAddress, requests, lookup, result, idlQueried>>

\* getProgramDataAddress returns a key: main prints the addresses and starts
\* both history lookups, each of which sends its request at once
ResolveUpgradeable ==
  /\ pc = "awaitAccount"
  /\ \E reply \in RpcReplies :
       /\ getProgramDataAddress(reply).kind = "key"
       /\ info' = reply
       /\ programDataAddress' = getProgramDataAddress(reply).key
  /\ resolved' = "key"
  /\ log' = log \o <<"addresses", "fetching">>
  /\ requests' = requests \o
       <<[label |-> "ProgramData", address |-> toBase58(programDataAddress')],
         [label |-> "IDL Account", address |-> [text |-> CONFIG["IDL_ACCOUNT"]]]>>
  /\ lookup' = [l \in Labels |-> "pending"]
  /\ idlQueried' = [idlQueried EXCEPT ![CONFIG["PROGRAM_ID"]] = @ \cup {CONFIG["IDL_ACCOUNT"]}]
  /\ pc' = "fetching"
  /\ UNCHANGED <<runs, entry, inputs, dotenv, env, CONFIG, exitCode, accountCalls,
                 result>>

\* the response of one history request arrives; when it is the second one,
\* Promise.all resolves
LookupReturns(l) ==
  /\ pc = "fetching"
  /\ lookup[l] = "pending"
  /\ \E reply \in HistoryReplies : result' = [result EXCEPT ![l] = latestOf(reply)]
  /\ lookup' = [lookup EXCEPT ![l] = "returned"]
  /\ pc' = IF \A m \in Labels \ {l} : lookup[m] = "returned" THEN "joined" ELSE pc
  /\ UNCHANGED <<runs, entry, inputs, dotenv, env, CONFIG, exitCode, log,
                 accountCalls, info, resolved, programDataAddress, requests,
                 idlQueried>>

\* getLatestTransaction swallowing the error: the catch block returns null
\* in place of rethrowing, and Promise.all goes on
LookupFails_swallowed(l) ==
  /\ pc = "fetching"
  /\ lookup[l] = "pending"
  /\ lookup' = [lookup EXCEPT ![l] = "failed"]
  /\ log' = Append(log, "fetch-error")
  /\ pc' = IF \A m \in Labels \ {l} : lookup[m] # "pending" THEN "joined" ELSE pc
  /\ UNCHANGED <<runs, entry, inputs, dotenv, env, CONFIG, exitCode, accountCalls,
                 info, resolved, programDataAddress, requests, result, idlQueried>>

\* one history request fails: getLatestTransaction prints the error and
\* rethrows, Promise.all rejects
LookupFails(l) ==
  /\ pc = "fetching"
  /\ lookup[l] = "pending"
  /\ lookup' = [lookup EXCEPT ![l] = "failed"]
  /\ log' = Append(log, "fetch-error")
  /\ pc' = "rejected"
  /\ UNCHANGED <<runs, entry, inputs, dotenv, env, CONFIG, exitCode, accountCalls,
                 info, resolved, programDataAddress, requests, result, idlQueried>>

\* the report printed only once the ProgramData record is known to exist
PrintReport_afterProgramCheck ==
  /\ pc = "joined"
  /\ log' = IF result["ProgramData"] = NoTx THEN log
            ELSE log \o printReport(result["ProgramData"], result["IDL Account"])
  /\ pc' = "decide"
  /\ UNCHANGED <<runs, entry, inputs, dotenv, env, CONFIG, exitCode, accountCalls,
                 info, resolved, programDataAddress, requests, lookup, result,
                 idlQueried>>

\* main, step 3: the report
PrintReport ==
  /\ pc = "joined"
  /\ log' = log \o printReport(result["ProgramData"], result["IDL Account"])
  /\ pc' = "decide"
  /\ UNCHANGED <<runs, entry, inputs, dotenv, env, CONFIG, exitCode, accountCalls,
                 info, resolved, programDataAddress, requests, lookup, result,
                 idlQueried>>

\* main, step 4: no record for ProgramData
NoProgramHistory ==
  /\ pc = "decide"
  /\ result["ProgramData"] = NoTx
  /\ log' = Append(log, "no-program-history")
  /\ Exit(0)
  /\ UNCHANGED <<runs, entry, inputs, dotenv, env, CONFIG, accountCalls, info,
                 resolved, programDataAddress, requests, lookup, result, idlQueried>>

\* main, step 4: no record for the IDL account
NoIdlHistory ==
  /\ pc = "decide"
  /\ result["ProgramData"] # NoTx
  /\ result["IDL Account"] = NoTx
  /\ log' = Append(log, "no-idl-history")
  /\ Exit(1)
  /\ UNCHANGED <<runs, entry, inputs, dotenv, env, CONFIG, accountCalls, info,
                 resolved, programDataAddress, requests, lookup, result, idlQueried>>

\* main, the comparison: the program changed after the IDL
Outdated ==
  /\ pc = "decide"
  /\ result["ProgramData"] # NoTx
  /\ result["IDL Account"] # NoTx
  /\ IsOutdated(result["ProgramData"], result["IDL Account"])
  /\ log' = Append(log, "OUTDATED")
  /\ Exit(1)
  /\ UNCHANGED <<runs, entry, inputs, dotenv, env, CONFIG, accountCalls, info,
                 resolved, programDataAddress, requests, lookup, result, idlQueried>>

\* main, the comparison: else
UpToDate ==
  /\ pc = "decide"
  /\ result["ProgramData"] # NoTx
  /\ result["IDL Account"] # NoTx
  /\ ~IsOutdated(result["ProgramData"], result["IDL Account"])
  /\ log' = Append(log, "OK")
  /\ Exit(0)
  /\ UNCHANGED <<runs, entry, inputs, dotenv, env, CONFIG, accountCalls, info,
                 resolved, programDataAddress, requests, lookup, result, idlQueried>>

\* main().catch: prints the error and exits with code 1
MainCatch ==
  /\ pc = "rejected"
  /\ log' = Append(log, "unhandled")
  /\ Exit(1)
  /\ UNCHANGED <<runs, entry, inputs, dotenv, env, CONFIG, accountCalls, info,
                 resolved, programDataAddress, requests, lookup, result, idlQueried>>

\* a run is started, by the workflow step (action.ts) or from the command
\* line (check-idl.ts), with the environment it is given
StartRun ==
  /\ pc = "idle"
  /\ runs < MaxRuns
  /\ runs' = runs + 1
  /\ entry' \in {"cli", "action"}
  /\ inputs' \in (IF entry' = "action" THEN ActionInputs ELSE {NoInputs})
  /\ dotenv' \in DotenvFiles
  /\ env' \in Environments
  /\ pc' = (IF entry' = "action" THEN "action" ELSE "load")
  /\ UNCHANGED <<CONFIG, exitCode, log, accountCalls, info, resolved,
                 programDataAddress, requests, lookup, result, idlQueried>>

\* the process is gone: nothing of it is carried to the next run
ProcessGone ==
  /\ pc = "exited"
  /\ pc' = "idle"
  /\ entry' = "none"
  /\ inputs' = NoInputs
  /\ dotenv' = NoEnv
  /\ env' = NoEnv
  /\ CONFIG' = NoConfig
  /\ exitCode' = -1
  /\ log' = <<>>
  /\ accountCalls' = 0
  /\ info' = NoInfo
  /\ resolved' = "none"
  /\ programDataAddress' = NoKey
  /\ requests' = <<>>
  /\ lookup' = [l \in Labels |-> "idle"]
  /\ result' = [l \in Labels |-> NoTx]
  /\ UNCHANGED <<runs, idlQueried>>

Next ==
  \/ StartRun
  \/ ActionInputMissing
  \/ ActionMapInputs
  \/ LoadModule
  \/ MainConfigMissing
  \/ MainBadProgramId
  \/ MainResolve
  \/ ResolveThrows
  \/ ResolveImmutable
  \/ ResolveUpgradeable
  \/ \E l \in Labels : LookupReturns(l)
  \/ \E l \in Labels : LookupFails(l)
  \/ PrintReport
  \/ NoProgramHistory
  \/ NoIdlHistory
  \/ Outdated
  \/ UpToDate
  \/ MainCatch
  \/ ProcessGone

Spec == Init /\ [][Next]_vars

\* ------------------------------------------------------------- properties
\* shorthands of the properties; none of them uses a helper of the model
BothReturned == \A l \in Labels : lookup[l] = "returned"
HasRecord(l) == lookup[l] = "returned" /\ result[l].timestamp >= 0
HasNoHistory(l) == lookup[l] = "returned" /\ result[l].timestamp < 0
Printed(tag) == \E i \in 1..Len(log) : log[i] = tag
Verdicts == {"OK", "OUTDATED", "no-program-history", "no-idl-history"}
LastPrinted == IF log = <<>> THEN "" ELSE log[Len(log)]
StatusTag(d) == d[1] + d[2] * 256 + d[3] * 256 * 256 + d[4] * 256 * 256 * 256
RequestsFor(l) == Cardinality({i \in 1..Len(requests) : requests[i].label = l})

\* C1: with both change records present the run ends OUTDATED with exit code 1
\* exactly when the program record's timestamp is strictly greater than the
\* IDL record's, and OK with exit code 0 in every other case, ties included.
C1_StrictComparison ==
  (pc = "exited" /\ HasRecord("ProgramData") /\ HasRecord("IDL Account")) =>
     IF result["ProgramData"].timestamp > result["IDL Account"].timestamp
     THEN exitCode = 1 /\ LastPrinted = "OUTDATED" /\ ~Printed("OK")
     ELSE exitCode = 0 /\ LastPrinted = "OK" /\ ~Printed("OUTDATED")

C1_Witness ==
  /\ pc = "exited" /\ HasRecord("ProgramData") /\ HasRecord("IDL Account")
  /\ result["ProgramData"].timestamp = result["IDL Account"].timestamp
  /\ exitCode = 0 /\ LastPrinted = "OK"

\* C2: when the ProgramData lookup returns no record, the run exits with code
\* 1, whatever the IDL lookup returned.
C2_NoProgramHistoryFails ==
  (pc = "exited" /\ BothReturned /\ HasNoHistory("ProgramData")) => exitCode = 1

\* C3: when the IDL lookup returns no record, the run exits with code 1,
\* whether the ProgramData lookup returned a record or no history.
C3_NoIdlHistoryFails ==
  (pc = "exited" /\ BothReturned /\ HasNoHistory("IDL Account")) => exitCode = 1

ImmutableAccount ==
  /\ info.kind = "account"
  /\ \/ info.owner # LOADER
     \/ Len(info.data) >= 4 /\ StatusTag(info.data) # 3

\* C4: a program account owned by another program than the loader, or owned
\* by the loader with a status tag other than 3, ends the run with exit code
\* 0, with no history request issued and no status report printed.
C4_ImmutablePath ==
  ImmutableAccount =>
     /\ pc = "exited" /\ exitCode = 0
     /\ requests = <<>> /\ \A l \in Labels : lookup[l] = "idle"
     /\ ~Printed("report") /\ ~Printed("unhandled")

C4_Witness ==
  /\ info.kind = "account" /\ info.owner = LOADER
  /\ Len(info.data) >= 36 /\ StatusTag(info.data) # 3
  /\ info.data[4] = 3
  /\ pc = "exited" /\ exitCode = 0

\* C5: the two history lookups are started together and joined before the
\* comparison; when either fails, in any order relative to the other and
\* whatever the other returned, the run exits with code 1 with no report
\* printed and no verdict reached, and no lookup is requested twice.
C5_JoinedLookups ==
  /\ (lookup["ProgramData"] = "idle") <=> (lookup["IDL Account"] = "idle")
  /\ (pc \in {"joined", "decide"} \/ Printed("report") \/ LastPrinted \in Verdicts)
        => BothReturned
  /\ (\E l \in Labels : lookup[l] = "failed") =>
        /\ pc \in {"rejected", "exited"}
        /\ pc = "exited" => exitCode = 1
        /\ ~Printed("report")
        /\ \A v \in Verdicts : ~Printed(v)
  /\ \A l \in Labels : RequestsFor(l) <= 1

C5_Witness ==
  /\ pc = "exited" /\ exitCode = 1
  /\ lookup["IDL Account"] = "failed"
  /\ HasRecord("ProgramData")
  /\ RequestsFor("IDL Account") = 1

\* C6: for a loader-owned account whose data has at least 36 bytes,
\* getProgramDataAddress returns bytes [4,36) of the data when its first four
\* bytes, read little-endian, are 3, and returns null without throwing for
\* any other leading tag.
C6_ProgramDataBytes ==
  (info.kind = "account" /\ info.owner = LOADER /\ Len(info.data) >= 36) =>
     IF StatusTag(info.data) = 3
     THEN /\ resolved = "key"
          /\ programDataAddress = [i \in 1..32 |-> info.data[i + 4]]
     ELSE /\ resolved = "null"
          /\ programDataAddress = <<>>
          /\ pc # "rejected" /\ ~Printed("unhandled")

C6_Witness ==
  /\ info.kind = "account" /\ info.owner = LOADER /\ Len(info.data) > 36
  /\ StatusTag(info.data) = 3
  /\ resolved = "key"
  /\ programDataAddress[1] = info.data[5] /\ programDataAddress[32] = info.data[36]

\* C7: the IDL address whose history is requested is a function of the
\* program address alone: over all runs, one program address never has two
\* different IDL addresses queried.
C7_IdlAddressFromProgram ==
  \A p \in DOMAIN idlQueried : Cardinality(idlQueried[p]) <= 1

\* C8: whenever both history lookups have returned, the status report is
\* printed before the process exits and before its outcome line, for each of
\* OK, OUTDATED, missing program history and missing IDL history.
C8_ReportBeforeExit ==
  (pc = "exited" /\ BothReturned) =>
     /\ LastPrinted \in Verdicts
     /\ \E i \in 1..Len(log) : log[i] = "report" /\ i < Len(log)
     /\ Printed("report-end")

C8_Witness ==
  /\ pc = "exited" /\ BothReturned
  /\ HasNoHistory("ProgramData")
  /\ Printed("report") /\ Printed("program-no-data")
  /\ LastPrinted = "no-program-history"

BadConfig ==
  \/ \E k \in {"HELIUS_API_KEY", "PROGRAM_ID", "IDL_ACCOUNT"} : CONFIG[k] \in {UNSET, ""}
  \/ CONFIG["PROGRAM_ID"] \notin {"Prog1", "Prog2"}

\* C9: when a required variable is missing or the program address is
\* malformed, the run exits with code 1 and neither the account lookup nor a
\* history lookup is ever issued.
C9_ConfigErrorBeforeNetwork ==
  (pc \notin {"idle", "action", "load"} /\ BadConfig) =>
     /\ accountCalls = 0 /\ requests = <<>>
     /\ \A l \in Labels : lookup[l] = "idle"
     /\ pc \in {"main", "rejected", "exited"}
     /\ pc = "exited" => exitCode = 1

C9_Witness ==
  /\ pc = "exited" /\ exitCode = 1 /\ accountCalls = 0
  /\ CONFIG["HELIUS_API_KEY"] = "key" /\ CONFIG["IDL_ACCOUNT"] = "Idl1"
  /\ CONFIG["PROGRAM_ID"] = "notakey"

ActionRunAsDocumented ==
  /\ entry = "action"
  /\ inputs.rpcUrl # "" /\ inputs.programId \in {"Prog1", "Prog2"}
  /\ env["HELIUS_API_KEY"] = UNSET /\ env["IDL_ACCOUNT"] = UNSET
  /\ dotenv = [v \in EnvVars |-> UNSET]

\* C10: a run started through action.ts with both required inputs given, and
\* no other variable set in the environment or in a .env file, passes
\* validateConfig and goes on to look up the program account.
C10_ActionSuppliesConfig ==
  (ActionRunAsDocumented /\ pc = "exited") =>
     ~Printed("missing-env") /\ accountCalls >= 1

====
